---- MODULE Spec2Model ----
(***************************************************************************)
(* A model of scripts/gendoc.py: the title normaliser                      *)
(* load_with_adjusted_titles, the file-tree resolver get_rst, build_spec   *)
(* and get_build_target, and the relative-title pass fix_relative_titles.  *)
(*                                                                         *)
(* A line of text is a sequence of one-character strings; the lines a      *)
(* file stream yields end with "\n", except possibly the last one.         *)
(***************************************************************************)
EXTENDS Integers, Sequences, FiniteSets, TLC

VARIABLES
    title_level,            \* get_rst / load_with_adjusted_titles argument
    title_styles,           \* target["title_styles"]
    file_stream,            \* the lines the loop of line 45 has consumed so far
    eof,                    \* the file stream is exhausted
    rst_lines,              \* line 38
    prev_line_title_level,  \* line 42
    file_offset,            \* line 43: <<>> is None, <<k>> is k
    prev_non_title_line,    \* line 44: <<>> is None, <<l>> is the line l
    warned,                 \* the WARNING of lines 66-67 has been printed
    rst,                    \* get_rst's local rst: <<>> is None, <<text>> a string
    pc,                     \* where the call is, or the exception that ended it
    \* fix_relative_titles
    infile,                 \* the lines of infile.readlines() consumed so far
    outfile,                \* the lines written to out_filename
    current_title_style,    \* line 190: <<>> is None, <<c>> is the character c
    rel_pc,                 \* where the call is, or the exception that ended it
    \* get_rst on a tree of file references
    file_info,              \* the node get_rst is called on
    section,                \* what the call returned or raised, <<>> before it
    \* get_build_target and build_spec
    all_targets,            \* the parsed targets.yaml
    build_target,           \* get_build_target's result, <<>> before it returns
    file_index,             \* the position of build_spec's loop in target["files"]
    opened,                 \* the fragments opened so far, in order
    written,                \* the sections written to the output file, in order
    outfile_open,           \* build_spec has opened (and truncated) the output
    build_pc                \* where the build is, or the exception that ended it

argVars == <<title_level, title_styles>>

loopVars == <<file_stream, eof, rst_lines, prev_line_title_level, file_offset,
              prev_non_title_line, warned, rst, pc>>

relVars == <<infile, outfile, current_title_style, rel_pc>>

treeVars == <<file_info, section>>

buildVars == <<all_targets, build_target, file_index, opened, written,
               outfile_open, build_pc>>

vars == <<argVars, loopVars, relVars, treeVars, buildVars>>

(***************************************************************************)
(* Bounds of the model.                                                    *)
(***************************************************************************)
MaxLines == 4
MaxTitleLevel == 2
MaxKey == 1
MaxFiles == 2

(***************************************************************************)
(* Text.                                                                   *)
(***************************************************************************)
NL == "\n"

Rep(c, n) == [i \in 1..n |-> c]

\* The marker characters the input may use, and the style tables of a build:
\* a line may use a marker the table of the build does not list.
Markers == <<"=", "-", "~">>

StyleTables == {SubSeq(Markers, 1, n) : n \in 2..Len(Markers)}

\* Line bodies: title texts of two lengths, a blank line, underlines of three
\* characters for each marker, an underline too short for the pattern, and a
\* line mixing two markers.
LineBodies ==
    {Rep("a", 3), Rep("a", 4), <<>>, Rep("=", 2), <<"=", "-", "=">>}
        \cup {Rep(Markers[k], 3) : k \in 1..Len(Markers)}

FileLines == {b \o <<NL>> : b \in LineBodies}

FinalLines == LineBodies \ {<<>>}

\* "".join(lines)
RECURSIVE Join(_)
Join(lines) == IF lines = <<>> THEN <<>> ELSE Head(lines) \o Join(Tail(lines))

\* str.replace(old, new) for one-character old and new
Replace(line, old, new) ==
    [i \in 1..Len(line) |-> IF line[i] = old THEN new ELSE line[i]]

\* s[-2:]
LastTwo(s) == IF Len(s) <= 2 THEN s ELSE SubSeq(s, Len(s) - 1, Len(s))

\* list.index(x), 0-based, for an x the list holds
Index(list, x) == (CHOOSE k \in 1..Len(list) : list[k] = x) - 1

\* list[i] is defined for -len <= i < len; a negative i counts from the end
ItemDefined(list, i) == -Len(list) <= i /\ i < Len(list)

Item(list, i) == IF i >= 0 THEN list[i + 1] ELSE list[Len(list) + i + 1]

(***************************************************************************)
(* load_with_adjusted_titles                                               *)
(***************************************************************************)
\* title_regex.match(line): "^[" + chars + "]{3,}$", where $ also matches
\* just before a newline that ends the string.
TitleRegexMatch(line, styles) ==
    LET body == IF line # <<>> /\ line[Len(line)] = NL
                THEN SubSeq(line, 1, Len(line) - 1) ELSE line
    IN  /\ Len(body) >= 3
        /\ \A i \in 1..Len(body) : \E k \in 1..Len(styles) : body[i] = styles[k]

\* len(prev_non_title_line) > len(line)
UnderlineTooShort(prev, line) == Len(prev) > Len(line)

\* prev_line_title_level - line_title_level < -1
DescentViolation(prev_level, level) == prev_level - level < -1

\* title_level + line_title_level - file_offset
AdjustedLevel(level, line_level, offset) == level + line_level - offset

NextPrevLevelAdjusted(line_level, adjusted) == adjusted

\* prev_line_title_level = line_title_level
NextPrevLevel(line_level, adjusted) == line_level

StyleTableExhaustedGT(adjusted, styles) == adjusted > Len(styles)

\* adjusted_level >= len(title_styles)
StyleTableExhausted(adjusted, styles) == adjusted >= Len(styles)

\* One iteration of the loop of lines 45-112 on the loop state s.
LoopBody(s, line, level, styles) ==
    LET ordinary == [s EXCEPT !.rst_lines = Append(@, line),
                              !.prev_non_title_line = <<line>>]
    IN
    IF ~TitleRegexMatch(line, styles) THEN ordinary
    ELSE IF s.prev_non_title_line = <<>> THEN [s EXCEPT !.pc = "type_error"]
    ELSE IF UnderlineTooShort(s.prev_non_title_line[1], line) THEN ordinary
    ELSE
      LET line_title_style == line[1]
          line_title_level == Index(styles, line_title_style)
          first == s.file_offset = <<>>
          offset == IF first THEN line_title_level ELSE s.file_offset[1]
          s1 == [s EXCEPT !.file_offset = <<offset>>,
                          !.warned = @ \/ (first /\ offset # 0)]
          adjusted_level == AdjustedLevel(level, line_title_level, offset)
          s2 == [s1 EXCEPT !.prev_line_title_level =
                               NextPrevLevel(line_title_level, adjusted_level)]
      IN
      IF DescentViolation(s.prev_line_title_level, line_title_level)
      THEN [s1 EXCEPT !.pc = "descent_error"]
      ELSE IF StyleTableExhausted(adjusted_level, styles)
      THEN [s2 EXCEPT !.pc = "exhausted_error"]
      ELSE IF adjusted_level = line_title_level
      THEN [s2 EXCEPT !.rst_lines = Append(@, line)]
      ELSE IF ~ItemDefined(styles, adjusted_level)
      THEN [s2 EXCEPT !.pc = "index_error"]
      ELSE [s2 EXCEPT !.rst_lines =
                Append(@, Replace(line, line_title_style,
                                  Item(styles, adjusted_level)))]

\* The loop state of lines 38-44.
LoopInit ==
    [rst_lines |-> <<>>, prev_line_title_level |-> 0, file_offset |-> <<>>,
     prev_non_title_line |-> <<>>, warned |-> FALSE, pc |-> "loop"]

LoopState ==
    [rst_lines |-> rst_lines, prev_line_title_level |-> prev_line_title_level,
     file_offset |-> file_offset, prev_non_title_line |-> prev_non_title_line,
     warned |-> warned, pc |-> pc]

SetLoopState(s) ==
    /\ rst_lines' = s.rst_lines
    /\ prev_line_title_level' = s.prev_line_title_level
    /\ file_offset' = s.file_offset
    /\ prev_non_title_line' = s.prev_non_title_line
    /\ warned' = s.warned
    /\ pc' = s.pc

TrailingNewlinesOkOne(text) == text # <<>> /\ text[Len(text)] = NL

\* not (rst[-2:] != "\n\n")
TrailingNewlinesOk(text) == LastTwo(text) = <<NL, NL>>

(***************************************************************************)
(* get_rst on a string node with adjust_titles: the file is open, the      *)
(* lines are read one by one by load_with_adjusted_titles, the joined text *)
(* is checked for its two trailing newlines and returned.                  *)
(***************************************************************************)
\* The variables of the other calls, at rest.
RelIdle ==
    /\ infile = <<>>
    /\ outfile = <<>>
    /\ current_title_style = <<>>
    /\ rel_pc = "idle"

TreeIdle ==
    /\ file_info = <<>>
    /\ section = <<>>

BuildIdle ==
    /\ all_targets = <<>>
    /\ build_target = <<>>
    /\ file_index = 0
    /\ opened = <<>>
    /\ written = <<>>
    /\ outfile_open = FALSE
    /\ build_pc = "idle"

LoopIdle ==
    /\ file_stream = <<>>
    /\ eof = FALSE
    /\ rst_lines = <<>>
    /\ prev_line_title_level = 0
    /\ file_offset = <<>>
    /\ prev_non_title_line = <<>>
    /\ warned = FALSE
    /\ rst = <<>>
    /\ pc = "idle"

Init ==
    /\ title_styles \in StyleTables
    /\ title_level \in 0..MaxTitleLevel
    /\ file_stream = <<>>
    /\ eof = FALSE
    /\ rst_lines = LoopInit.rst_lines
    /\ prev_line_title_level = LoopInit.prev_line_title_level
    /\ file_offset = LoopInit.file_offset
    /\ prev_non_title_line = LoopInit.prev_non_title_line
    /\ warned = LoopInit.warned
    /\ rst = <<>>
    /\ pc = LoopInit.pc
    /\ RelIdle /\ TreeIdle /\ BuildIdle

\* An iteration on a line that ends with a newline.
ReadLine ==
    /\ pc = "loop" /\ ~eof /\ Len(file_stream) < MaxLines
    /\ \E line \in FileLines :
        /\ file_stream' = Append(file_stream, line)
        /\ SetLoopState(LoopBody(LoopState, line, title_level, title_styles))
    /\ UNCHANGED <<argVars, eof, rst, relVars, treeVars, buildVars>>

\* An iteration on the last line of a file that does not end with a newline.
ReadFinalLine ==
    /\ pc = "loop" /\ ~eof /\ Len(file_stream) < MaxLines
    /\ \E line \in FinalLines :
        /\ file_stream' = Append(file_stream, line)
        /\ SetLoopState(LoopBody(LoopState, line, title_level, title_styles))
    /\ eof' = TRUE
    /\ UNCHANGED <<argVars, rst, relVars, treeVars, buildVars>>

\* The stream is exhausted: line 114, and the assignment of lines 124-126.
ReturnJoined ==
    /\ pc = "loop"
    /\ eof' = TRUE
    /\ rst' = <<Join(rst_lines)>>
    /\ pc' = "loaded"
    /\ UNCHANGED <<argVars, file_stream, rst_lines, prev_line_title_level,
                   file_offset, prev_non_title_line, warned, relVars, treeVars, buildVars>>

\* Lines 129-134.
CheckTrailingNewlines ==
    /\ pc = "loaded"
    /\ pc' = IF TrailingNewlinesOk(rst[1]) THEN "returned" ELSE "newline_error"
    /\ UNCHANGED <<argVars, file_stream, eof, rst_lines, prev_line_title_level,
                   file_offset, prev_non_title_line, warned, rst, relVars, treeVars, buildVars>>

Next == ReadLine \/ ReadFinalLine \/ ReturnJoined \/ CheckTrailingNewlines

Spec == Init /\ [][Next]_vars

(***************************************************************************)
(* fix_relative_titles                                                     *)
(***************************************************************************)
\* target["relative_title_styles"]: the characters the templates emit.
RelativeTitleStyles == [subtitle |-> "<", sametitle |-> "/", supertitle |-> ">"]

\* relative_title_chars, lines 179-183
RelativeTitleChars ==
    <<RelativeTitleStyles.subtitle, RelativeTitleStyles.sametitle,
      RelativeTitleStyles.supertitle>>

\* The lines of the templated file: a title text, an underline for each
\* marker, an underline of each relative character, a relative underline too
\* short for the pattern, and one mixing relative characters.
RelLineBodies ==
    {Rep("a", 3), Rep("<", 2), <<"<", "/", ">">>}
        \cup {Rep(Markers[k], 3) : k \in 1..Len(Markers)}
        \cup {Rep(RelativeTitleChars[k], 3) : k \in 1..Len(RelativeTitleChars)}

RelLines == {b \o <<NL>> : b \in RelLineBodies}

RelativeLevelSwapped(line_char, current_title_level) ==
    IF line_char = RelativeTitleStyles.subtitle THEN current_title_level - 1
    ELSE IF line_char = RelativeTitleStyles.sametitle THEN current_title_level
    ELSE current_title_level + 1

\* The index of replacement_char in title_styles, lines 202-217.
RelativeLevel(line_char, current_title_level) ==
    IF line_char = RelativeTitleStyles.subtitle THEN current_title_level + 1
    ELSE IF line_char = RelativeTitleStyles.sametitle THEN current_title_level
    ELSE current_title_level - 1

\* One iteration of the loop of lines 193-225 on r = [outfile,
\* current_title_style, rel_pc].
RelLoopBody(r, line, styles) ==
    IF ~TitleRegexMatch(line, RelativeTitleChars)
    THEN [r EXCEPT !.outfile = Append(@, line),
                   !.current_title_style =
                       IF TitleRegexMatch(line, styles) THEN <<line[1]>> ELSE @]
    ELSE IF r.current_title_style = <<>>
    THEN [r EXCEPT !.rel_pc = "value_error"]
    ELSE
      LET line_char == line[1]
          current_title_level == Index(styles, r.current_title_style[1])
      IN
      IF /\ line_char = RelativeTitleStyles.subtitle
         /\ current_title_level + 1 = Len(styles)
      THEN [r EXCEPT !.rel_pc = "subtitle_error"]
      ELSE IF /\ line_char = RelativeTitleStyles.supertitle
              /\ current_title_level - 1 < 0
      THEN [r EXCEPT !.rel_pc = "supertitle_error"]
      ELSE IF line_char \notin {RelativeTitleStyles.subtitle,
                                RelativeTitleStyles.sametitle,
                                RelativeTitleStyles.supertitle}
      THEN [r EXCEPT !.rel_pc = "unknown_char_error"]
      ELSE IF ~ItemDefined(styles, RelativeLevel(line_char, current_title_level))
      THEN [r EXCEPT !.rel_pc = "index_error"]
      ELSE [r EXCEPT !.outfile =
                Append(@, Replace(line, line_char,
                    Item(styles, RelativeLevel(line_char, current_title_level))))]

RelInit ==
    /\ title_styles \in StyleTables
    /\ title_level = 0
    /\ infile = <<>>
    /\ outfile = <<>>
    /\ current_title_style = <<>>
    /\ rel_pc = "loop"
    /\ LoopIdle /\ TreeIdle /\ BuildIdle

\* An iteration of the loop of line 193.
RelReadLine ==
    /\ rel_pc = "loop" /\ Len(infile) < MaxLines
    /\ \E line \in RelLines :
        LET r == RelLoopBody([outfile |-> outfile,
                              current_title_style |-> current_title_style,
                              rel_pc |-> rel_pc], line, title_styles)
        IN  /\ infile' = Append(infile, line)
            /\ outfile' = r.outfile
            /\ current_title_style' = r.current_title_style
            /\ rel_pc' = r.rel_pc
    /\ UNCHANGED <<argVars, loopVars, treeVars, buildVars>>

\* The lines are exhausted: both files are closed.
RelDone ==
    /\ rel_pc = "loop"
    /\ rel_pc' = "done"
    /\ UNCHANGED <<argVars, loopVars, treeVars, buildVars, infile, outfile,
                   current_title_style>>

RelNext == RelReadLine \/ RelDone

SpecRelative == RelInit /\ [][RelNext]_vars

(***************************************************************************)
(* load_with_adjusted_titles as a function of the whole file.              *)
(***************************************************************************)
RECURSIVE LoopOver(_, _, _, _)
LoopOver(s, lines, level, styles) ==
    IF lines = <<>> \/ s.pc # "loop" THEN s
    ELSE LoopOver(LoopBody(s, Head(lines), level, styles), Tail(lines),
                  level, styles)

\* [pc |-> "loop", text |-> the joined lines], or the exception in pc
LoadWithAdjustedTitles(lines, level, styles) ==
    LET s == LoopOver(LoopInit, lines, level, styles)
    IN  [pc |-> s.pc,
         text |-> IF s.pc = "loop" THEN Join(s.rst_lines) ELSE <<>>]

(***************************************************************************)
(* The fragments under spec_dir, and the nodes of target["files"].         *)
(***************************************************************************)
Fragments == {"intro.rst", "api.rst"}

FragmentLines(name) ==
    IF name = "intro.rst"
    THEN <<Rep("a", 3) \o <<NL>>, Rep("=", 3) \o <<NL>>, <<NL>>>>
    ELSE <<Rep("a", 3) \o <<NL>>, Rep("=", 3) \o <<NL>>,
           Rep("a", 3) \o <<NL>>, Rep("-", 3) \o <<NL>>, <<NL>>>>

\* A node: a string (a path, or a group reference), a dict of level -> node
\* (keys[i] is the key of items[i], in the order the dict happens to hold
\* them), a list of nodes, or anything else.
Str(name) == [kind |-> "str", name |-> name, keys |-> <<>>, items |-> <<>>]

Dict(keys, items) == [kind |-> "dict", name |-> "", keys |-> keys, items |-> items]

List(items) == [kind |-> "list", name |-> "", keys |-> <<>>, items |-> items]

Other == [kind |-> "other", name |-> "", keys |-> <<>>, items |-> <<>>]

\* One or two children.
Children(S) == {<<x>> : x \in S} \cup {<<x, y>> : x \in S, y \in S}

\* One or two distinct keys, in any order.
KeySeqs ==
    {<<k>> : k \in 0..MaxKey}
        \cup {ks \in {<<k, l>> : k \in 0..MaxKey, l \in 0..MaxKey} : ks[1] # ks[2]}

Nest(S) ==
    S \cup {List(c) : c \in Children(S)}
      \cup {Dict(p[1], p[2]) :
                p \in {q \in KeySeqs \X Children(S) : Len(q[1]) = Len(q[2])}}

\* The trees of fragments, nested up to two deep.
Trees == Nest(Nest({Str(f) : f \in Fragments}))

(***************************************************************************)
(* get_rst                                                                 *)
(***************************************************************************)
Unsorted(keys) == keys

\* sorted(file_info.keys())
RECURSIVE Sorted(_)
Sorted(keys) ==
    IF keys = <<>> THEN <<>>
    ELSE LET i == CHOOSE i \in 1..Len(keys) :
                      \A j \in 1..Len(keys) : keys[i] <= keys[j]
         IN  <<keys[i]>> \o
             Sorted([j \in 1..(Len(keys) - 1) |->
                        IF j < i THEN keys[j] ELSE keys[j + 1]])

\* file_info[l]
DictItem(node, l) == node.items[CHOOSE i \in 1..Len(node.keys) : node.keys[i] = l]

\* The title_level line 140 passes for the child under key l.
DictChildLevel(l, level) == l

\* The title_level line 146 passes for a child of a list.
ListChildLevel(level) == level

\* One call: [status |-> "ok" or the exception, rst |-> the returned text,
\* opened |-> the fragments the call opened, in order].
RECURSIVE GetRst(_, _, _)
RECURSIVE GetRstEach(_, _, _, _)
GetRstEach(nodes, levels, styles, acc) ==
    IF nodes = <<>> THEN acc
    ELSE LET r == GetRst(Head(nodes), Head(levels), styles)
         IN  IF r.status # "ok"
             THEN [status |-> r.status, rst |-> <<>>,
                   opened |-> acc.opened \o r.opened]
             ELSE GetRstEach(Tail(nodes), Tail(levels), styles,
                             [status |-> "ok", rst |-> acc.rst \o r.rst,
                              opened |-> acc.opened \o r.opened])

GetRst(node, level, styles) ==
    LET empty == [status |-> "ok", rst |-> <<>>, opened |-> <<>>]
    IN
    IF node.kind = "str" THEN
        IF node.name \notin Fragments
        THEN [status |-> "io_error", rst |-> <<>>, opened |-> <<>>]
        ELSE LET r == LoadWithAdjustedTitles(FragmentLines(node.name), level,
                                             styles)
             IN  IF r.pc # "loop"
                 THEN [status |-> r.pc, rst |-> <<>>, opened |-> <<node.name>>]
                 ELSE IF ~TrailingNewlinesOk(r.text)
                 THEN [status |-> "newline_error", rst |-> <<>>,
                       opened |-> <<node.name>>]
                 ELSE [status |-> "ok", rst |-> r.text,
                       opened |-> <<node.name>>]
    ELSE IF node.kind = "dict" THEN
        LET levels == Sorted(node.keys)
        IN  GetRstEach([i \in 1..Len(levels) |-> DictItem(node, levels[i])],
                       [i \in 1..Len(levels) |-> DictChildLevel(levels[i], level)],
                       styles, empty)
    ELSE IF node.kind = "list" THEN
        GetRstEach(node.items,
                   [i \in 1..Len(node.items) |-> ListChildLevel(level)],
                   styles, empty)
    ELSE [status |-> "entry_error", rst |-> <<>>, opened |-> <<>>]

TreeInit ==
    /\ title_styles \in StyleTables
    /\ title_level \in 0..MaxTitleLevel
    /\ file_info \in Trees
    /\ section = <<>>
    /\ LoopIdle /\ RelIdle /\ BuildIdle

\* The call get_rst(file_info, title_level, title_styles, spec_dir, True).
TreeGetRst ==
    /\ section = <<>>
    /\ section' = <<GetRst(file_info, title_level, title_styles)>>
    /\ UNCHANGED <<argVars, loopVars, relVars, buildVars, file_info>>

TreeNext == TreeGetRst

SpecTree == TreeInit /\ [][TreeNext]_vars

(***************************************************************************)
(* get_build_target                                                        *)
(***************************************************************************)
\* The strings that start with "group:".
GroupRefs == {"group:pages", "group:single", "group:none"}

\* all_targets.get("groups", {}).get(group_name): <<>> is None.  The listing
\* defines the group pages as a list and the group single as one path.
Groups(ref) ==
    IF ref = "group:pages" THEN <<List(<<Str("intro.rst"), Str("api.rst")>>)>>
    ELSE IF ref = "group:single" THEN <<Str("intro.rst")>>
    ELSE <<>>

\* isinstance(f, basestring) and f.startswith("group:")
IsGroupRef(node) == node.kind = "str" /\ node.name \in GroupRefs

GroupMissingNever(group) == FALSE

\* not group, line 286
GroupMissing(group) == group = <<>>

\* The entries a target may list under "files".
Entries ==
    {Str("intro.rst"), Str("api.rst"), Str("group:pages"), Str("group:single"),
     Str("group:none"), Other,
     Dict(<<1>>, <<Str("group:pages")>>), Dict(<<1>>, <<Str("group:none")>>),
     Dict(<<1, 0>>, <<Str("api.rst"), Str("intro.rst")>>),
     List(<<Str("intro.rst"), Other>>), List(<<Str("group:pages")>>)}

RECURSIVE SeqsUpTo(_, _)
SeqsUpTo(S, n) ==
    IF n = 0 THEN {<<>>}
    ELSE LET shorter == SeqsUpTo(S, n - 1)
         IN  shorter \cup {Append(q, x) : q \in shorter, x \in S}

\* Lines 299-301: the values of a dict that are group references are
\* replaced by their groups.  [status, items]
RECURSIVE ResolveValues(_)
ResolveValues(items) ==
    IF items = <<>> THEN [status |-> "ok", items |-> <<>>]
    ELSE LET v == Head(items)
             rest == ResolveValues(Tail(items))
         IN  IF IsGroupRef(v) /\ GroupMissing(Groups(v.name))
             THEN [status |-> "no_group_error", items |-> <<>>]
             ELSE IF rest.status # "ok" THEN rest
             ELSE [status |-> "ok",
                   items |-> <<IF ~IsGroupRef(v) THEN v
                               ELSE IF Groups(v.name) = <<>> THEN Other
                               ELSE Groups(v.name)[1]>> \o rest.items]

\* The loop of lines 293-311 from resolved_files = acc.  [status, files]
RECURSIVE ResolveFiles(_, _)
ResolveFiles(files, acc) ==
    IF files = <<>> THEN [status |-> "ok", files |-> acc]
    ELSE
      LET f == Head(files)
      IN
      IF IsGroupRef(f) THEN
          LET group == Groups(f.name)
          IN  IF GroupMissing(group)
              THEN [status |-> "no_group_error", files |-> <<>>]
              ELSE IF group = <<>>                     \* not (if group:), line 305
              THEN ResolveFiles(Tail(files), Append(acc, f))
              ELSE IF group[1].kind = "list"
              THEN ResolveFiles(Tail(files), acc \o group[1].items)
              ELSE ResolveFiles(Tail(files), Append(acc, group[1]))
      ELSE IF f.kind = "dict" THEN
          LET r == ResolveValues(f.items)
          IN  IF r.status # "ok" THEN [status |-> r.status, files |-> <<>>]
              ELSE ResolveFiles(Tail(files),
                                Append(acc, [f EXCEPT !.items = r.items]))
      ELSE ResolveFiles(Tail(files), Append(acc, f))

\* get_build_target: [status |-> "ok" or the exception, files |-> the
\* resolved build_target["files"]]
GetBuildTargetResult(all) ==
    IF ~all.has_target
    THEN [status |-> "no_target_error", files |-> <<>>]
    ELSE IF ~all.files_is_list
    THEN [status |-> "files_not_list_error", files |-> <<>>]
    ELSE ResolveFiles(all.files, <<>>)

(***************************************************************************)
(* main: get_build_target, then build_spec.                                *)
(***************************************************************************)
BuildInit ==
    /\ title_styles \in StyleTables
    /\ title_level = 0
    /\ all_targets \in [has_target : BOOLEAN, files_is_list : BOOLEAN,
                        files : SeqsUpTo(Entries, MaxFiles)]
    /\ build_target = <<>>
    /\ file_index = 0
    /\ opened = <<>>
    /\ written = <<>>
    /\ outfile_open = FALSE
    /\ build_pc = "get_build_target"
    /\ LoopIdle /\ RelIdle /\ TreeIdle

\* Line 334.
GetBuildTarget ==
    /\ build_pc = "get_build_target"
    /\ LET r == GetBuildTargetResult(all_targets)
       IN  IF r.status = "ok"
           THEN build_target' = <<r.files>> /\ build_pc' = "build_spec"
           ELSE build_target' = build_target /\ build_pc' = r.status
    /\ UNCHANGED <<argVars, loopVars, relVars, treeVars, all_targets,
                   file_index, opened, written, outfile_open>>

\* Line 155: the output file is opened for writing.
OpenOutfile ==
    /\ build_pc = "build_spec"
    /\ outfile_open' = TRUE
    /\ file_index' = 1
    /\ build_pc' = "sections"
    /\ UNCHANGED <<argVars, loopVars, relVars, treeVars, all_targets,
                   build_target, opened, written>>

\* Lines 156-164: one iteration, get_rst on the entry and the write.
BuildSection ==
    /\ build_pc = "sections"
    /\ file_index <= Len(build_target[1])
    /\ LET r == GetRst(build_target[1][file_index], title_level, title_styles)
       IN  /\ opened' = opened \o r.opened
           /\ IF r.status = "ok"
              THEN /\ written' = Append(written, r.rst)
                   /\ file_index' = file_index + 1
                   /\ UNCHANGED <<build_pc, outfile_open>>
              ELSE /\ build_pc' = r.status
                   /\ outfile_open' = FALSE
                   /\ UNCHANGED <<written, file_index>>
    /\ UNCHANGED <<argVars, loopVars, relVars, treeVars, all_targets,
                   build_target>>

\* The loop is over: the output file is closed.
CloseOutfile ==
    /\ build_pc = "sections"
    /\ file_index > Len(build_target[1])
    /\ outfile_open' = FALSE
    /\ build_pc' = "built"
    /\ UNCHANGED <<argVars, loopVars, relVars, treeVars, all_targets,
                   build_target, file_index, opened, written>>

BuildNext == GetBuildTarget \/ OpenOutfile \/ BuildSection \/ CloseOutfile

SpecBuild == BuildInit /\ [][BuildNext]_vars

(***************************************************************************)
(* What the claims speak of, read off the input consumed so far.           *)
(***************************************************************************)
\* Which lines of a stream are headings: a line of the heading pattern that is
\* at least as long as the most recent line that was not a heading.
RECURSIVE HeadingMarks(_, _, _)
HeadingMarks(stream, styles, prev) ==
    IF stream = <<>> THEN <<>>
    ELSE LET line == Head(stream)
             h == /\ TitleRegexMatch(line, styles)
                  /\ prev # <<>>
                  /\ Len(prev[1]) <= Len(line)
         IN  <<h>> \o HeadingMarks(Tail(stream), styles,
                                   IF h THEN prev ELSE <<line>>)

Headings ==
    LET marks == HeadingMarks(file_stream, title_styles, <<>>)
    IN  {n \in 1..Len(file_stream) : marks[n]}

\* The position in the style table of the marker a line starts with.
MarkerLevel(line) == Index(title_styles, line[1])

LocalLevel(n) == MarkerLevel(file_stream[n])

Emitted(n) == n <= Len(rst_lines)

EmittedLevel(n) == MarkerLevel(rst_lines[n])

FirstHeading == CHOOSE n \in Headings : \A m \in Headings : n <= m

\* The local level of the heading before heading n, 0 before the first one.
PrevHeadingLevel(n) ==
    LET before == {m \in Headings : m < n}
    IN  IF before = {} THEN 0
        ELSE LocalLevel(CHOOSE m \in before : \A k \in before : k <= m)

\* target_level + k - file_offset of heading n
ShiftedLevel(n) == title_level + LocalLevel(n) - LocalLevel(FirstHeading)

TooDeep(n) == LocalLevel(n) > PrevHeadingLevel(n) + 1

LastLine == Len(file_stream)

Normalized == pc \in {"loaded", "returned", "newline_error"}

\* A line made of one repeated marker of the style table, at least 3 long.
UniformMarkerLine(line) ==
    LET body == IF line # <<>> /\ line[Len(line)] = NL
                THEN SubSeq(line, 1, Len(line) - 1) ELSE line
    IN  /\ Len(body) >= 3
        /\ \E k \in 1..Len(title_styles) :
              \A i \in 1..Len(body) : body[i] = title_styles[k]

\* Every heading of the fragment is a line of one repeated marker.
HeadingsUniform == \A n \in Headings : UniformMarkerLine(file_stream[n])

\* The text of the fragment ends with two newline characters.
EndsWithBlankLine(stream) ==
    /\ Len(stream) >= 2
    /\ stream[Len(stream)] = <<NL>>
    /\ stream[Len(stream) - 1][Len(stream[Len(stream) - 1])] = NL

(***************************************************************************)
(* C1: in a fragment normalized without error (here: one whose headings    *)
(* are lines of one repeated marker), every heading of local level k is    *)
(* emitted with the marker at index target_level + k - file_offset of the  *)
(* style table.                                                            *)
(***************************************************************************)
C1_UniformShift ==
    (Normalized /\ HeadingsUniform)
        => \A n \in Headings : EmittedLevel(n) = ShiftedLevel(n)

(***************************************************************************)
(* C2: the descent error ends normalization exactly at a heading whose     *)
(* local level exceeds the previous heading's local level plus one (0      *)
(* before the first heading), whatever target_level is.                    *)
(***************************************************************************)
C2_DescentErrorExact ==
    /\ \A n \in Headings :
          TooDeep(n) => (n = LastLine /\ pc = "descent_error")
    /\ pc = "descent_error" => (LastLine \in Headings /\ TooDeep(LastLine))

C2_Witness ==
    /\ pc = "descent_error"
    /\ title_level > 0
    /\ Cardinality(Headings) >= 2
    /\ PrevHeadingLevel(LastLine) + title_level >= LocalLevel(LastLine) - 1

(***************************************************************************)
(* C3, as claimed: normalization aborts with the style-table-exhausted     *)
(* error at the first heading whose adjusted level is at least the length  *)
(* of the style table, and no such heading is emitted.                     *)
(***************************************************************************)
C3_ExhaustedAtFirstOverflow ==
    \A n \in Headings :
        (HeadingsUniform /\ ShiftedLevel(n) >= Len(title_styles))
            => (n = LastLine /\ pc = "exhausted_error" /\ ~Emitted(n))

(***************************************************************************)
(* C3, amended: normalization aborts at the first heading whose adjusted   *)
(* level is at least the length of the style table, with the descent error *)
(* if that heading also descends more than one level and with the          *)
(* style-table-exhausted error otherwise; no text is returned, no such     *)
(* heading is emitted, and the exhausted error is raised nowhere else.     *)
(***************************************************************************)
C3_AbortAtFirstOverflow ==
    /\ \A n \in Headings :
          ShiftedLevel(n) >= Len(title_styles)
              => /\ n = LastLine
                 /\ ~Emitted(n)
                 /\ rst = <<>>
                 /\ pc = IF TooDeep(n) THEN "descent_error"
                         ELSE "exhausted_error"
    /\ pc = "exhausted_error"
          => /\ LastLine \in Headings
             /\ ShiftedLevel(LastLine) >= Len(title_styles)

C3_Witness ==
    /\ pc = "exhausted_error"
    /\ title_level < Len(title_styles)
    /\ Cardinality(Headings) >= 2
    /\ ShiftedLevel(LastLine) = Len(title_styles)

(***************************************************************************)
(* C4: in a fragment normalized without error (here: one whose headings    *)
(* are lines of one repeated marker), a heading that is an ancestor of     *)
(* another in the original fragment is emitted at a shallower style-table  *)
(* index than its descendant.                                              *)
(***************************************************************************)
Ancestor(a, b) ==
    /\ a < b
    /\ LocalLevel(a) < LocalLevel(b)
    /\ \A m \in Headings : (a < m /\ m < b) => LocalLevel(m) > LocalLevel(a)

C4_NestingPreserved ==
    (Normalized /\ HeadingsUniform) =>
        \A a, b \in Headings : Ancestor(a, b) => EmittedLevel(a) < EmittedLevel(b)

(***************************************************************************)
(* C5: a first heading at a non-zero level of the style table only         *)
(* produces a warning; it never ends normalization with an error           *)
(* (target_level being a level of the table).                              *)
(***************************************************************************)
C5_FirstHeadingOnlyWarns ==
    (/\ title_level < Len(title_styles)
     /\ Headings = {LastLine}
     /\ LocalLevel(LastLine) # 0)
        => (warned /\ pc \in {"loop", "loaded", "returned", "newline_error"})

(***************************************************************************)
(* C6, as claimed: a fragment whose text does not end with two newlines is *)
(* rejected with the trailing-newline error before the normalizer          *)
(* processes any line, so a fragment that lacks the two newlines and also  *)
(* violates the heading structure gets the trailing-newline error.         *)
(***************************************************************************)
C6_NewlineCheckFirst ==
    (/\ eof /\ ~EndsWithBlankLine(file_stream)
     /\ \E n \in Headings : TooDeep(n) \/ ShiftedLevel(n) >= Len(title_styles)
     /\ pc \notin {"loop", "loaded"})
        => pc = "newline_error"

(***************************************************************************)
(* C6, amended: the trailing-newline check runs after the normalizer has   *)
(* processed every line of the fragment without error: the fragment is     *)
(* rejected with the trailing-newline error exactly when normalization     *)
(* succeeded and its text does not end with two newlines, and a fragment   *)
(* that also violates the heading structure gets the heading error.        *)
(***************************************************************************)
C6_NewlineCheckLast ==
    /\ pc \in {"returned", "newline_error"}
          => /\ eof /\ Len(rst_lines) = Len(file_stream) /\ rst # <<>>
             /\ (pc = "newline_error") <=> ~EndsWithBlankLine(file_stream)
    /\ pc \in {"descent_error", "exhausted_error"} => rst = <<>>

C6_Witness ==
    /\ pc = "newline_error"
    /\ Headings # {}
    /\ file_stream[LastLine][Len(file_stream[LastLine])] = NL

(***************************************************************************)
(* C10: a line is rewritten only if it consists solely of one repeated     *)
(* marker of the style table, is at least 3 long and at least as long as   *)
(* the most recent ordinary line; every other line is output unchanged at  *)
(* its position, the output has as many lines as the input, and a          *)
(* rewritten line keeps its length and is one repeated marker.             *)
(***************************************************************************)
C10_OnlyUniformHeadingsRewritten ==
    /\ Normalized => Len(rst_lines) = Len(file_stream)
    /\ \A n \in 1..Len(rst_lines) :
          rst_lines[n] # file_stream[n]
              => /\ UniformMarkerLine(file_stream[n])
                 /\ n \in Headings
                 /\ Len(rst_lines[n]) = Len(file_stream[n])
                 /\ UniformMarkerLine(rst_lines[n])

(***************************************************************************)
(* What C8 speaks of, read off the lines consumed so far.                  *)
(***************************************************************************)
RelativeMarkerLine(n) == TitleRegexMatch(infile[n], RelativeTitleChars)

AbsoluteHeadingLine(n) ==
    ~RelativeMarkerLine(n) /\ TitleRegexMatch(infile[n], title_styles)

AbsoluteBefore(n) == {m \in 1..(n - 1) : AbsoluteHeadingLine(m)}

\* c: the style-table index of the most recent absolute heading before line n
CurrentLevelAt(n) ==
    LET m == CHOOSE k \in AbsoluteBefore(n) : \A j \in AbsoluteBefore(n) : j <= k
    IN  Index(title_styles, infile[m][1])

\* The style-table index line n asks for.
WantedLevel(n) ==
    CurrentLevelAt(n) +
        (CASE infile[n][1] = RelativeTitleStyles.subtitle -> 1
           [] infile[n][1] = RelativeTitleStyles.sametitle -> 0
           [] infile[n][1] = RelativeTitleStyles.supertitle -> -1)

(***************************************************************************)
(* C8: every relative-marker line is rewritten relative to the index c of  *)
(* the most recent absolute heading line before it in the input: subtitle  *)
(* to c+1, sametitle to c, supertitle to c-1; subtitle at the deepest      *)
(* index and supertitle at index 0 are fatal; rewriting a relative line    *)
(* does not change c; every other line is written unchanged.               *)
(***************************************************************************)
C8_RelativeToLastAbsolute ==
    /\ \A n \in 1..Len(infile) :
          IF ~RelativeMarkerLine(n)
          THEN n <= Len(outfile) /\ outfile[n] = infile[n]
          ELSE IF AbsoluteBefore(n) = {}
          THEN n = Len(infile) /\ rel_pc = "value_error"
          ELSE IF WantedLevel(n) = Len(title_styles)
          THEN n = Len(infile) /\ rel_pc = "subtitle_error"
          ELSE IF WantedLevel(n) < 0
          THEN n = Len(infile) /\ rel_pc = "supertitle_error"
          ELSE /\ n <= Len(outfile)
               /\ outfile[n] = Replace(infile[n], infile[n][1],
                                       title_styles[WantedLevel(n) + 1])
    /\ rel_pc \in {"loop", "done"} => Len(outfile) = Len(infile)
    /\ rel_pc \notin {"loop", "done"} => Len(outfile) = Len(infile) - 1

\* Two relative lines after one absolute heading: the second is still
\* rewritten relative to the absolute heading, not to the first rewrite.
C8_Witness ==
    /\ rel_pc = "done"
    /\ \E n \in 2..(Len(infile) - 1) :
          /\ AbsoluteHeadingLine(n - 1)
          /\ infile[n] = Rep("<", 3) \o <<NL>>
          /\ infile[n + 1] = Rep("<", 3) \o <<NL>>
          /\ outfile[n] = outfile[n + 1]
          /\ outfile[n] # infile[n - 1]

(***************************************************************************)
(* What C7 speaks of: the leaves of a tree in traversal order, each with   *)
(* the target level it is to be normalized with.                           *)
(***************************************************************************)
RECURSIVE Flatten(_)
Flatten(seqs) == IF seqs = <<>> THEN <<>> ELSE Head(seqs) \o Flatten(Tail(seqs))

\* The keys of a dict in ascending order: the k-th is the key with k-1
\* smaller keys.
Ascending(keys) ==
    [k \in 1..Len(keys) |->
        CHOOSE x \in {keys[i] : i \in 1..Len(keys)} :
            Cardinality({i \in 1..Len(keys) : keys[i] < x}) = k - 1]

RECURSIVE Leaves(_, _)
Leaves(node, level) ==
    IF node.kind = "list"
    THEN Flatten([i \in 1..Len(node.items) |-> Leaves(node.items[i], level)])
    ELSE IF node.kind = "dict"
    THEN Flatten([k \in 1..Len(node.keys) |->
            LET key == Ascending(node.keys)[k]
                i == CHOOSE i \in 1..Len(node.keys) : node.keys[i] = key
            IN  Leaves(node.items[i], key)])
    ELSE <<[name |-> node.name, level |-> level]>>

LeafText(leaf) ==
    LoadWithAdjustedTitles(FragmentLines(leaf.name), leaf.level, title_styles)

(***************************************************************************)
(* C7: get_rst normalizes every child of a list with the list's own        *)
(* target_level, in list order, and every child of a level-keyed mapping   *)
(* with its key as target_level, in ascending key order; the output is the *)
(* concatenation of the leaves' normalized texts in that order (and a      *)
(* failing leaf ends the traversal there).                                 *)
(***************************************************************************)
C7_TraversalOrder ==
    section # <<>> =>
        LET leaves == Leaves(file_info, title_level)
            failing == {i \in 1..Len(leaves) : LeafText(leaves[i]).pc # "loop"}
            names(n) == [i \in 1..n |-> leaves[i].name]
        IN  IF failing = {}
            THEN /\ section[1].status = "ok"
                 /\ section[1].opened = names(Len(leaves))
                 /\ section[1].rst =
                        Flatten([i \in 1..Len(leaves) |-> LeafText(leaves[i]).text])
            ELSE LET f == CHOOSE i \in failing : \A j \in failing : i <= j
                 IN  /\ section[1].status = LeafText(leaves[f]).pc
                     /\ section[1].opened = names(f)

\* A list holding a mapping whose keys are not in ascending order and differ
\* from the level passed to the list.
C7_Witness ==
    /\ section # <<>>
    /\ section[1].status = "ok"
    /\ file_info.kind = "list"
    /\ Len(file_info.items) = 2
    /\ file_info.items[1].kind = "str"
    /\ file_info.items[2].kind = "dict"
    /\ file_info.items[2].keys = <<1, 0>>
    /\ title_level = 2
    /\ Len(section[1].opened) = 3

(***************************************************************************)
(* What C9 speaks of.                                                      *)
(***************************************************************************)
FragmentIO == opened # <<>> \/ written # <<>>

\* The target lists a reference to a group the listing does not define, as a
\* 'files' entry or as a value of a mapping entry.
MissingGroupListed ==
    \E i \in 1..Len(all_targets.files) :
        LET f == all_targets.files[i]
        IN  \/ f = Str("group:none")
            \/ /\ f.kind = "dict"
               /\ \E j \in 1..Len(f.items) : f.items[j] = Str("group:none")

(***************************************************************************)
(* C9, as claimed: every configuration error (unknown target, 'files' not  *)
(* a list, missing group, a 'files' entry that is not a string, list or    *)
(* mapping) is raised before any fragment is opened or any section         *)
(* written.                                                                *)
(***************************************************************************)
C9_ConfigErrorsBeforeIO ==
    build_pc \in {"no_target_error", "files_not_list_error", "no_group_error",
                  "entry_error"}
        => ~FragmentIO

(***************************************************************************)
(* C9, amended: an unknown target, a 'files' that is not a list and a      *)
(* missing group are raised by get_build_target before the output is       *)
(* opened and before any fragment is opened or written, and a target with  *)
(* one of these defects never gets further; a 'files' entry that is not a  *)
(* string, list or mapping is only detected when get_rst reaches it, after *)
(* every section before it has been written.                               *)
(***************************************************************************)
C9_TargetErrorsBeforeIO ==
    /\ build_pc \in {"no_target_error", "files_not_list_error", "no_group_error"}
          => (~FragmentIO /\ ~outfile_open /\ build_target = <<>>)
    /\ build_pc # "get_build_target" =>
          /\ ~all_targets.has_target => build_pc = "no_target_error"
          /\ (all_targets.has_target /\ ~all_targets.files_is_list)
                => build_pc = "files_not_list_error"
          /\ (all_targets.has_target /\ all_targets.files_is_list
                /\ MissingGroupListed)
                => build_pc = "no_group_error"
    /\ build_pc = "entry_error"
          => /\ Len(written) = file_index - 1
             /\ \A i \in 1..Len(written) :
                    written[i] = GetRst(build_target[1][i], 0, title_styles).rst

C9_Witness ==
    /\ build_pc = "no_group_error"
    /\ Len(all_targets.files) = 2
    /\ all_targets.files[1] = Str("intro.rst")

====
